---- MODULE Spec2Model ----
(***************************************************************************)
(* State-machine model of SnakeGameEnv                                     *)
(* (src/snake_game_gym/envs/snake_game.py).                                *)
(*                                                                         *)
(* A position is a pair <<row, col>> (the code's [y, x] list).  The body   *)
(* is a sequence of positions, head first.  Python's None is the empty     *)
(* tuple.  Rewards 0.0, 1.0 and 10.0 are the integers 0, 1 and 10.         *)
(***************************************************************************)
EXTENDS Integers, Sequences, FiniteSets, TLC

VARIABLES
    snake,                  \* self.snake
    apple,                  \* self.apple
    global_snake_direction, \* self.global_snake_direction
    state,                  \* self.state, the stored observation
    op,                     \* the last call: "init", "reset" or "step"
    action,                 \* the argument of the last step call
    fault,                  \* exception raised by the last call, or "none"
    reward,                 \* reward returned by the last step
    done,                   \* done flag returned by the last step
    ate_apple,              \* the local ate_apple of the last step
    warned,                 \* the last step called logger.warn
    episode,                \* "fresh", "ready" or "done": was done returned since reset
    steps,                  \* step calls since the last reset
    pre,                    \* snake, apple, heading, observation, episode before the last call
    for_loop                \* the for loop of check_if_ate_apple, statement by statement

vars == <<snake, apple, global_snake_direction, state, op, action, fault,
          reward, done, ate_apple, warned, episode, steps, pre, for_loop>>

(***************************************************************************)
(* Bounds of the model.                                                    *)
(***************************************************************************)
\* step calls explored after a reset
MaxSteps == 7
\* apples one scan of check_if_ate_apple may consume under Spec
MaxEat == 2
\* step calls explored after a reset under SpecLong
MaxStepsLong == 11
\* shortest and longest run of respawns onto the tail under SpecLong
LongFrom == 221
MaxRun == 224

(***************************************************************************)
(* Program constants.                                                      *)
(***************************************************************************)
x_size == 15
y_size == 15

None == << >>

\* respawn positions drawn with randint(0, 15)
Grid_off_by_one == {<<r, c>> : r \in 0..15, c \in 0..15}

\* random.randint(0, 14) twice
Grid == {<<r, c>> : r \in 0..14, c \in 0..14}

\* a membership test that admits one action too many
action_space_contains_off_by_one(a) == a \in 0..3

\* spaces.Discrete(3).contains
action_space_contains(a) == a \in 0..2

\* what a caller may pass to step besides a valid action
InvalidActions == {-1, 3}

\* the three-piece start the class docstring describes
initial_parts_three_pieces ==
    [snake |-> << <<7, 4>>, <<7, 3>>, <<7, 2>> >>, apple |-> <<7, 11>>]

initial_parts == [snake |-> << <<7, 4>>, <<7, 3>> >>, apple |-> <<7, 11>>]

\* a turning transform over four heading codes: wraps 4 to 0 and -1 to 3
relative_to_global_direction_four(global_direction, relative_direction) ==
    IF relative_direction = 0
    THEN IF global_direction + 1 >= 4 THEN 0 ELSE global_direction + 1
    ELSE IF relative_direction = 2
         THEN IF global_direction - 1 = -1 THEN 3 ELSE global_direction - 1
         ELSE global_direction

\* a turning transform that turns by two heading codes at once
relative_to_global_direction_half_turn(global_direction, relative_direction) ==
    IF relative_direction = 0 THEN (global_direction + 2) % 5
    ELSE IF relative_direction = 2 THEN (global_direction + 3) % 5
    ELSE global_direction

relative_to_global_direction(global_direction, relative_direction) ==
    IF relative_direction = 0
    THEN IF global_direction + 1 = 5 THEN 0 ELSE global_direction + 1
    ELSE IF relative_direction = 2
         THEN IF global_direction - 1 = -1 THEN 4 ELSE global_direction - 1
         ELSE global_direction

\* the loop of move_snake.  It runs from the tail to the segment after the
\* head, so iteration i reads snake[i - 1] before any iteration writes it:
\* every read is of the body as it was on entry.
\* a shift that walks from the head to the tail, reading pieces already written
shift_pieces_forward(s) ==
    [i \in 1..Len(s) |-> s[1]]

shift_pieces(s) ==
    [i \in 1..Len(s) |-> IF i >= 2 /\ s[i] # s[i - 1] THEN s[i - 1] ELSE s[i]]

\* a head move that stops at the border of the grid
move_head_clamped(p, dir) ==
    IF dir = 0 THEN <<IF p[1] > 0 THEN p[1] - 1 ELSE 0, p[2]>>
    ELSE IF dir = 1 THEN <<p[1], IF p[2] < 14 THEN p[2] + 1 ELSE 14>>
    ELSE IF dir = 2 THEN <<IF p[1] < 14 THEN p[1] + 1 ELSE 14, p[2]>>
    ELSE <<p[1], IF p[2] > 0 THEN p[2] - 1 ELSE 0>>

\* a head move whose last branch steps two columns
move_head_two_tiles(p, dir) ==
    IF dir = 0 THEN <<p[1] - 1, p[2]>>
    ELSE IF dir = 1 THEN <<p[1], p[2] + 1>>
    ELSE IF dir = 2 THEN <<p[1] + 1, p[2]>>
    ELSE <<p[1], p[2] - 2>>

move_head(p, dir) ==
    IF dir = 0 THEN <<p[1] - 1, p[2]>>
    ELSE IF dir = 1 THEN <<p[1], p[2] + 1>>
    ELSE IF dir = 2 THEN <<p[1] + 1, p[2]>>
    ELSE <<p[1], p[2] - 1>>

move_snake(s, dir) ==
    LET shifted == shift_pieces(s)
    IN  [shifted EXCEPT ![1] = move_head(shifted[1], dir)]

\* generate_new_random_apple: the draws a scan of check_if_ate_apple makes
\* are listed in rnd, in the order the scan makes them.
generate_new_random_apple(rnd, j) == rnd[j]

\* the first index at or after i of a piece equal to the apple, 0 if none:
\* where the for loop of check_if_ate_apple, standing at index i, next
\* enters its if
next_match(s, a, i) ==
    LET M == {m \in i..Len(s) : s[m] = a}
    IN  IF M = {} THEN 0 ELSE CHOOSE m \in M : \A n \in M : m <= n

\* the loop of check_if_ate_apple from index st.i up to and including its
\* next passage through the if, which makes draw j.  complete is FALSE
\* when the loop ends without making the draw.
eat(st, rnd, j) ==
    IF ~st.complete THEN st
    ELSE LET m == next_match(st.snake, st.apple, st.i)
         IN  IF m = 0 THEN [st EXCEPT !.complete = FALSE]
             ELSE [snake |-> Append(st.snake, st.snake[Len(st.snake)]),
                   apple |-> generate_new_random_apple(rnd, j),
                   i |-> m + 1, used |-> j, complete |-> TRUE]

\* the passages lo..hi of the loop through its if, in order (split in
\* halves to keep the evaluation shallow)
RECURSIVE eat_all(_, _, _, _)
eat_all(st, rnd, lo, hi) ==
    IF lo > hi THEN st
    ELSE IF lo = hi THEN eat(st, rnd, lo)
    ELSE LET mid == (lo + hi) \div 2
             left == eat_all(st, rnd, lo, mid)
         IN  IF ~left.complete THEN left ELSE eat_all(left, rnd, mid + 1, hi)

\* the for loop of check_if_ate_apple over the list it appends to, making
\* the draws of rnd.  complete is TRUE when the loop makes exactly these
\* draws and then runs off the end of the list.
scan_pieces(s, a, rnd) ==
    LET st == eat_all([snake |-> s, apple |-> a, i |-> 1, used |-> 0,
                       complete |-> TRUE], rnd, 1, Len(rnd))
    IN  [snake |-> st.snake, apple |-> st.apple, used |-> st.used,
         complete |-> st.complete /\ next_match(st.snake, st.apple, st.i) = 0]

\* check_if_ate_apple has no return statement: the call evaluates to None
check_if_ate_apple(s, a, rnd) ==
    [scan |-> scan_pieces(s, a, rnd), ret |-> "None"]

\* Python truth value of the values ate_apple can hold
truthy(v) == v = "True"

check_if_hit_wall(s) ==
    LET head_x == s[1][1]
        head_y == s[1][2]
    IN  IF head_x > 14 THEN TRUE
        ELSE IF head_y > 14 THEN TRUE
        ELSE IF head_x < 0 THEN TRUE
        ELSE IF head_y < 0 THEN TRUE
        ELSE FALSE

\* self.snake[1:] as a set of positions
pieces_after_head(s) == {s[j] : j \in 2..Len(s)}

check_if_hit_itself(s) == s[1] \in pieces_after_head(s)

\* a win test that also accepts a body longer than the grid
check_if_won_at_least(s) == Len(s) >= x_size * y_size

check_if_won(s) == Len(s) = x_size * y_size

\* the eight ray offsets in the order the *_ray_observation methods cast them
Rays == << <<-1, 0>>, <<-1, 1>>, <<0, 1>>, <<1, 1>>,
           <<1, 0>>, <<1, -1>>, <<0, -1>>, <<-1, -1>> >>

\* for distance in range(15): advance, break on the apple; pos is the ray
\* position before the advance of iteration distance
RECURSIVE apple_ray(_, _, _, _, _)
apple_ray(pos, a, y_behaviour, x_behaviour, distance) ==
    LET ray_position == <<pos[1] + y_behaviour, pos[2] + x_behaviour>>
    IN  IF ray_position = a \/ distance = 14 THEN distance
        ELSE apple_ray(ray_position, a, y_behaviour, x_behaviour, distance + 1)

\* a wall ray that takes row and column 14 for the wall
RECURSIVE wall_ray_inclusive(_, _, _, _)
wall_ray_inclusive(pos, y_behaviour, x_behaviour, distance) ==
    LET ray_position == <<pos[1] + y_behaviour, pos[2] + x_behaviour>>
    IN  IF \/ ray_position[1] < 0
           \/ ray_position[1] >= 14
           \/ ray_position[2] < 0
           \/ ray_position[2] >= 14
           \/ distance = 14
        THEN distance
        ELSE wall_ray_inclusive(ray_position, y_behaviour, x_behaviour, distance + 1)

RECURSIVE wall_ray(_, _, _, _)
wall_ray(pos, y_behaviour, x_behaviour, distance) ==
    LET ray_position == <<pos[1] + y_behaviour, pos[2] + x_behaviour>>
    IN  IF \/ ray_position[1] < 0
           \/ ray_position[1] > 14
           \/ ray_position[2] < 0
           \/ ray_position[2] > 14
           \/ distance = 14
        THEN distance
        ELSE wall_ray(ray_position, y_behaviour, x_behaviour, distance + 1)

\* a body ray that sees only the pieces inside the grid
RECURSIVE snake_piece_ray_in_grid(_, _, _, _, _)
snake_piece_ray_in_grid(pos, pieces, y_behaviour, x_behaviour, distance) ==
    LET ray_position == <<pos[1] + y_behaviour, pos[2] + x_behaviour>>
    IN  IF ray_position \in (pieces \cap Grid) \/ distance = 14 THEN distance
        ELSE snake_piece_ray_in_grid(ray_position, pieces, y_behaviour,
                                     x_behaviour, distance + 1)

RECURSIVE snake_piece_ray(_, _, _, _, _)
snake_piece_ray(pos, pieces, y_behaviour, x_behaviour, distance) ==
    LET ray_position == <<pos[1] + y_behaviour, pos[2] + x_behaviour>>
    IN  IF ray_position \in pieces \/ distance = 14 THEN distance
        ELSE snake_piece_ray(ray_position, pieces, y_behaviour, x_behaviour,
                             distance + 1)

\* l[-n:] + l[:-n]
rotate(l, n) ==
    IF n = 0 THEN l
    ELSE SubSeq(l, Len(l) - n + 1, Len(l)) \o SubSeq(l, 1, Len(l) - n)

rotate_obs(obs, dir) ==
    IF dir = 0 THEN obs
    ELSE IF dir = 1 THEN rotate(obs, 2)
    ELSE IF dir = 2 THEN rotate(obs, 4)
    ELSE rotate(obs, 6)

\* the raw (unrotated) lists the *_ray_observation methods build
apple_rays(s, a) ==
    [k \in 1..8 |-> apple_ray(s[1], a, Rays[k][1], Rays[k][2], 0)]

wall_rays(s) ==
    [k \in 1..8 |-> wall_ray(s[1], Rays[k][1], Rays[k][2], 0)]

snake_piece_rays(s) ==
    LET pieces == pieces_after_head(s)
    IN  [k \in 1..8 |-> snake_piece_ray(s[1], pieces, Rays[k][1], Rays[k][2], 0)]

apple_ray_observation(s, a, dir) == rotate_obs(apple_rays(s, a), dir)

wall_ray_observation(s, dir) == rotate_obs(wall_rays(s), dir)

snake_piece_ray_observation(s, dir) == rotate_obs(snake_piece_rays(s), dir)

generate_state(s, a, dir) ==
    <<Len(s)>> \o apple_ray_observation(s, a, dir)
               \o wall_ray_observation(s, dir)
               \o snake_piece_ray_observation(s, dir)

\* the outcome of step from the checks onward, on the body s and apple a
\* left by check_if_ate_apple, which returned ret
step_outcome(s, a, new_dir, ret) ==
    LET died == check_if_hit_wall(s) \/ check_if_hit_itself(s)
        won == check_if_won(s)
        d == died \/ won
    IN  [snake |-> s,
         apple |-> a,
         dir |-> new_dir,
         state |-> generate_state(s, a, new_dir),
         ate_apple |-> ret,
         done |-> d,
         reward |-> IF ~d THEN (IF truthy(ret) THEN 10 ELSE 1) ELSE 0,
         warned |-> d]

\* the body of step after the assert, on body s, apple a and heading dir,
\* with the respawn draws rnd
step_result(s, a, dir, act, rnd) ==
    LET new_dir == relative_to_global_direction(dir, act)
        ate == check_if_ate_apple(move_snake(s, new_dir), a, rnd)
    IN  step_outcome(ate.scan.snake, ate.scan.apple, new_dir, ate.ret)

(***************************************************************************)
(* The respawn positions one step may draw.  A draw that is no position    *)
(* of the body ends the scan, so every draw but the last is a position of  *)
(* the body.                                                               *)
(***************************************************************************)
Positions(s) == {s[j] : j \in 1..Len(s)}

Respawns(s, a) ==
    IF a \notin Positions(s) THEN {<< >>}
    ELSE UNION {{[j \in 1..k |-> IF j < k THEN early[j] ELSE last] :
                    early \in [1..(k - 1) -> Positions(s)], last \in Grid} :
                k \in 1..MaxEat}

\* the corners of the grid
Corners == {<<r, c>> : r \in {0, 14}, c \in {0, 14}}

\* runs of respawns onto the tail segment, then one onto a corner
LongRespawns(s, a) ==
    IF a \notin Positions(s) THEN {<< >>}
    ELSE {[j \in 1..k |-> IF j < k THEN s[Len(s)] ELSE last] :
             k \in (1..MaxEat) \cup (LongFrom..MaxRun), last \in Corners}

\* the observation reset computes: generate_state on the parts and heading
\* reset has just assigned
initial_state == generate_state(initial_parts.snake, initial_parts.apple, 1)

before == [snake |-> snake, apple |-> apple, dir |-> global_snake_direction,
           state |-> state, episode |-> episode]

\* the fields __init__ sets, and no call made yet
constructed ==
    /\ snake = None
    /\ apple = None
    /\ global_snake_direction = None
    /\ state = None
    /\ op = "init"
    /\ action = None
    /\ fault = "none"
    /\ reward = 0
    /\ done = FALSE
    /\ ate_apple = "None"
    /\ warned = FALSE
    /\ episode = "fresh"
    /\ steps = 0
    /\ pre = None

Init == constructed /\ for_loop = None

reset ==
    /\ snake' = initial_parts.snake
    /\ apple' = initial_parts.apple
    /\ global_snake_direction' = 1
    /\ state' = initial_state
    /\ op' = "reset"
    /\ action' = None
    /\ fault' = "none"
    /\ reward' = 0
    /\ done' = FALSE
    /\ ate_apple' = "None"
    /\ warned' = FALSE
    /\ episode' = "ready"
    /\ steps' = 0
    /\ pre' = [snake |-> None, apple |-> None, dir |-> None, state |-> None,
               episode |-> episode]
    /\ UNCHANGED for_loop

\* a step call that raises: nothing of the environment is assigned
step_raises(act, exc) ==
    /\ fault' = exc
    /\ op' = "step"
    /\ action' = act
    /\ pre' = before
    /\ UNCHANGED <<snake, apple, global_snake_direction, state, reward, done,
                   ate_apple, warned, episode, steps, for_loop>>

\* step(act) with at most limit steps explored per episode; long selects the
\* respawn draws explored
step_with(act, limit, long) ==
    IF ~action_space_contains(act)
    THEN step_raises(act, "AssertionError")
    ELSE IF snake = None
    THEN step_raises(act, "TypeError")
    ELSE /\ steps < limit
         /\ \E moved \in {move_snake(snake,
                 relative_to_global_direction(global_snake_direction, act))} :
              \E rnd \in (IF long THEN LongRespawns(moved, apple)
                                 ELSE Respawns(moved, apple)) :
                /\ \E scan \in {check_if_ate_apple(moved, apple, rnd).scan} :
                      scan.complete /\ scan.used = Len(rnd)
                /\ \E r \in {step_result(snake, apple, global_snake_direction,
                                          act, rnd)} :
                      /\ snake' = r.snake
                      /\ apple' = r.apple
                      /\ global_snake_direction' = r.dir
                      /\ state' = r.state
                      /\ ate_apple' = r.ate_apple
                      /\ done' = r.done
                      /\ reward' = r.reward
                      /\ warned' = r.warned
                      /\ episode' = IF r.done THEN "done" ELSE episode
         /\ op' = "step"
         /\ action' = act
         /\ fault' = "none"
         /\ steps' = steps + 1
         /\ pre' = before
         /\ UNCHANGED for_loop

ActionInputs == (0..2) \cup InvalidActions

step == \E act \in ActionInputs : step_with(act, MaxSteps, FALSE)

step_long == \E act \in ActionInputs : step_with(act, MaxStepsLong, TRUE)

Next == reset \/ step

Spec == Init /\ [][Next]_vars

NextLong == reset \/ step_long

SpecLong == Init /\ [][NextLong]_vars

(***************************************************************************)
(* Vocabulary of the properties.                                           *)
(***************************************************************************)
\* the last call was a step that returned
StepReturned == op = "step" /\ fault = "none"

\* the last step extended the body
Grew == StepReturned /\ Len(snake) > Len(pre.snake)

\* the episode was already Done when the last call was made
WasDone == pre.episode = "done"

InGrid(p) == p[1] \in 0..14 /\ p[2] \in 0..14

HeadOutside == ~InGrid(snake[1])

HeadOnBody == \E j \in 2..Len(snake) : snake[j] = snake[1]

\* 1-based index, in a raw ray list, of the ray along heading dir
ForwardRay(dir) == IF dir = 0 THEN 1 ELSE IF dir = 1 THEN 3 ELSE IF dir = 2 THEN 5 ELSE 7

\* the apple lies n tiles ahead of the head of body s along heading dir
AppleAhead(s, a, dir, n) ==
    LET delta == Rays[ForwardRay(dir)]
    IN  a = <<s[1][1] + n * delta[1], s[1][2] + n * delta[2]>>

(***************************************************************************)
(* C1.  A step that does not end the episode and in which the body grew    *)
(* returns reward 10; in particular, going straight onto an apple one tile *)
(* ahead gives growth, reward 10 and done = FALSE.                         *)
(***************************************************************************)
C1_GrowthRewardsTen ==
    /\ (Grew /\ ~done) => reward = 10
    /\ (StepReturned /\ action = 1 /\ AppleAhead(pre.snake, pre.apple, pre.dir, 1)
          /\ Len(pre.snake) = 2)
       => (Grew /\ reward = 10 /\ ~done)

C3_InvalidActionFaults ==
    (op = "step" /\ action \notin {0, 1, 2}) =>
        /\ fault = "AssertionError"
        /\ snake = pre.snake
        /\ apple = pre.apple
        /\ global_snake_direction = pre.dir
        /\ state = pre.state

\* an out-of-range action passed in the middle of an episode
C3_InvalidMidEpisode ==
    /\ op = "step" /\ action = 3 /\ fault = "AssertionError"
    /\ steps > 0 /\ snake = pre.snake /\ Len(snake) = 2

(***************************************************************************)
(* C4.  A step returns done exactly when, after movement and growth, the   *)
(* head is outside the grid, or on another segment, or the body has 225    *)
(* segments; and whenever it returns done it returns reward 0.             *)
(***************************************************************************)
C4_DoneIffTerminal ==
    StepReturned =>
        /\ done <=> (HeadOutside \/ HeadOnBody \/ Len(snake) = 225)
        /\ done => reward = 0

\* a win: 225 segments, head inside the grid and on no other segment
C4_Win ==
    /\ StepReturned /\ done /\ reward = 0
    /\ Len(snake) = 225 /\ ~HeadOutside /\ ~HeadOnBody

(***************************************************************************)
(* C5.  In each of the three channels of the observation, index 0 of the   *)
(* rotated vector is the raw ray along the heading: raw index 0 for        *)
(* heading 0, 2 for heading 1, 4 for heading 2, 6 for headings 3 and 4.    *)
(***************************************************************************)
C5_ForwardRayFirst ==
    (op = "reset" \/ StepReturned) =>
        LET f == ForwardRay(global_snake_direction)
        IN  /\ state[2] = apple_rays(snake, apple)[f]
            /\ state[10] = wall_rays(snake)[f]
            /\ state[18] = snake_piece_rays(snake)[f]

(***************************************************************************)
(* C6.  From the reset state step(1) moves the head to (7,5), returns      *)
(* reward 1 and done = FALSE, and element 1 of the observation is 1 less   *)
(* than before; and so for every straight step toward an apple straight    *)
(* ahead that does not reach it.                                           *)
(***************************************************************************)
C6_ForwardAppleRayDecreases ==
    /\ (StepReturned /\ action = 1 /\ pre.snake = << <<7, 4>>, <<7, 3>> >>
          /\ pre.apple = <<7, 11>> /\ pre.dir = 1)
       => /\ snake[1] = <<7, 5>>
          /\ reward = 1
          /\ ~done
          /\ state[2] = pre.state[2] - 1
    /\ (StepReturned /\ action = 1 /\ InGrid(pre.snake[1])
          /\ \E n \in 2..14 : AppleAhead(pre.snake, pre.apple, pre.dir, n))
       => state[2] = pre.state[2] - 1

(***************************************************************************)
(* C7.  Every observation returned by reset, and by a step made while the  *)
(* episode is not Done, has 25 elements, the first in 0..225 and the       *)
(* other 24 in 0..14.                                                      *)
(***************************************************************************)
C7_ObservationInRange ==
    (op = "reset" \/ (StepReturned /\ ~WasDone)) =>
        /\ Len(state) = 25
        /\ state[1] \in 0..225
        /\ \A i \in 2..25 : state[i] \in 0..14

(***************************************************************************)
(* C8.  A step in which the body grows leaves it exactly one segment       *)
(* longer, wherever the apple respawns, and the new apple is in the grid.  *)
(***************************************************************************)
C8_GrowthByOne ==
    Grew => (Len(snake) = Len(pre.snake) + 1 /\ InGrid(apple))

(***************************************************************************)
(* C9.  A step with a valid action on an episode that is already Done      *)
(* returns and emits the warning, whatever done value it computes.         *)
(***************************************************************************)
C9_StepAfterDoneWarns ==
    (op = "step" /\ action \in {0, 1, 2} /\ WasDone) =>
        (fault = "none" /\ warned)

(***************************************************************************)
(* C10.  A step emits the warning only if an earlier step since the last   *)
(* reset returned done; the first step to return done emits none.          *)
(***************************************************************************)
C10_WarningOnlyAfterDone ==
    (StepReturned /\ warned) => WasDone

Distinct(s) == \A i, j \in 1..Len(s) : i < j => s[i] # s[j]

(***************************************************************************)
(* C12.  While the episode is not Done, no two pieces of the body hold the *)
(* same position, except that right after a step that grew the body the    *)
(* last two pieces may be equal; and the movement of every step leaves all *)
(* positions distinct again.                                               *)
(***************************************************************************)
C12_DuplicateOnlyAtTail ==
    /\ op = "reset" => Distinct(snake)
    /\ (StepReturned /\ episode # "done") =>
         /\ \A i, j \in 1..Len(snake) :
               (i < j /\ snake[i] = snake[j]) =>
                   (Grew /\ i = Len(snake) - 1 /\ j = Len(snake))
         /\ Distinct(move_snake(pre.snake, global_snake_direction))

(***************************************************************************)
(* C13.  A step moves the head by exactly one tile along one axis: row - 1 *)
(* for heading 0, col + 1 for heading 1, row + 1 for heading 2, col - 1    *)
(* for headings 3 and 4; it never clamps, so the head may leave the grid.  *)
(***************************************************************************)
C13_HeadMovesOneTile ==
    StepReturned =>
        LET h == pre.snake[1]
            d == global_snake_direction
        IN  snake[1] = IF d = 0 THEN <<h[1] - 1, h[2]>>
                       ELSE IF d = 1 THEN <<h[1], h[2] + 1>>
                       ELSE IF d = 2 THEN <<h[1] + 1, h[2]>>
                       ELSE <<h[1], h[2] - 1>>

\* under heading 4 the head has moved one tile further left, out of the grid
C13_HeadingFourLeavesGrid ==
    /\ StepReturned /\ global_snake_direction = 4
    /\ snake[1] = <<pre.snake[1][1], pre.snake[1][2] - 1>>
    /\ snake[1][2] < -1

(***************************************************************************)
(* The for loop of check_if_ate_apple, one statement per step.  The loop   *)
(* reads only the pieces at and after its cursor, and every piece it       *)
(* appends is a copy of the last piece of the body on entry; for_loop      *)
(* keeps the body on entry (snake), the cursor while it is within that     *)
(* body (i, 1-based), the number of appended pieces the cursor has not     *)
(* passed (ahead), the apple, and the statement about to run (pc).         *)
(***************************************************************************)
\* the bodies and apples the loop is entered with: the seventh straight
\* step after reset, and the step after it for every respawn
LoopEntries ==
    {[snake |-> << <<7, 11>>, <<7, 10>> >>, apple |-> <<7, 11>>]}
    \cup {[snake |-> << <<7, 12>>, <<7, 11>>, <<7, 10>> >>, apple |-> a] : a \in Grid}

InitLoop ==
    /\ constructed
    /\ \E e \in LoopEntries :
         for_loop = [pc |-> "for", snake |-> e.snake, i |-> 1, ahead |-> 0,
                     apple |-> e.apple]

\* for piece in self.snake: fetch the next piece, or leave the loop
loop_for ==
    /\ for_loop.pc = "for"
    /\ LET n == Len(for_loop.snake)
       IN  IF for_loop.i <= n
           THEN for_loop' =
                  [for_loop EXCEPT !.i = @ + 1,
                      !.pc = IF for_loop.snake[for_loop.i] = for_loop.apple
                             THEN "append" ELSE "for"]
           ELSE IF for_loop.ahead > 0
           THEN for_loop' =
                  [for_loop EXCEPT !.ahead = @ - 1,
                      !.pc = IF for_loop.snake[n] = for_loop.apple
                             THEN "append" ELSE "for"]
           ELSE for_loop' = [for_loop EXCEPT !.pc = "done"]
    /\ UNCHANGED <<snake, apple, global_snake_direction, state, op, action,
                   fault, reward, done, ate_apple, warned, episode, steps, pre>>

\* self.snake.append(self.snake[-1].copy())
loop_append ==
    /\ for_loop.pc = "append"
    /\ for_loop' = [for_loop EXCEPT !.ahead = @ + 1, !.pc = "respawn"]
    /\ UNCHANGED <<snake, apple, global_snake_direction, state, op, action,
                   fault, reward, done, ate_apple, warned, episode, steps, pre>>

\* self.generate_new_random_apple()
loop_respawn ==
    /\ for_loop.pc = "respawn"
    /\ \E a \in Grid : for_loop' = [for_loop EXCEPT !.apple = a, !.pc = "for"]
    /\ UNCHANGED <<snake, apple, global_snake_direction, state, op, action,
                   fault, reward, done, ate_apple, warned, episode, steps, pre>>

NextLoop == loop_for \/ loop_append \/ loop_respawn

\* the interpreter runs the next statement of the loop as long as there is one
SpecLoop == InitLoop /\ [][NextLoop]_vars /\ WF_vars(NextLoop)

C15_AppleKeptUnlessEaten ==
    /\ snake # None => InGrid(apple)
    /\ (StepReturned
          /\ \A j \in 1..Len(pre.snake) :
                move_snake(pre.snake, global_snake_direction)[j] # pre.apple)
       => (apple = pre.apple /\ Len(snake) = Len(pre.snake))

\* the head stops one tile short of the apple without taking it
C15_StoppedBeforeApple ==
    /\ StepReturned /\ apple = pre.apple /\ Len(snake) = Len(pre.snake)
    /\ snake[1] = <<7, 10>> /\ apple = <<7, 11>>

Min(a, b) == IF a <= b THEN a ELSE b

\* the tile n steps from the head of body s along ray k
RayTile(s, k, n) == <<s[1][1] + n * Rays[k][1], s[1][2] + n * Rays[k][2]>>

(***************************************************************************)
(* C16.  With the head at (r, c) inside the grid, every raw wall ray meets *)
(* a tile outside the grid within its 15 steps and reports the number of   *)
(* tiles of the grid between the head and that tile: r up, 14 - c right,   *)
(* 14 - r down, c left, and for a diagonal the smaller of its two          *)
(* neighbours.                                                             *)
(***************************************************************************)
C16_WallRaysCountGridTiles ==
    (snake # None /\ InGrid(snake[1])) =>
        LET r == snake[1][1]
            c == snake[1][2]
            w == wall_rays(snake)
        IN  /\ w = <<r, Min(r, 14 - c), 14 - c, Min(14 - r, 14 - c),
                     14 - r, Min(14 - r, c), c, Min(r, c)>>
            /\ \A k \in 1..8 :
                  /\ w[k] \in 0..14
                  /\ ~InGrid(RayTile(snake, k, w[k] + 1))
                  /\ \A n \in 1..w[k] : InGrid(RayTile(snake, k, n))

\* the head in the bottom left corner: the up and right rays run the full 14 tiles
C16_HeadInCorner ==
    /\ StepReturned /\ snake[1] = <<14, 0>>
    /\ wall_rays(snake) = <<14, 14, 14, 0, 0, 0, 0, 0>>

(***************************************************************************)
(* C17.  move_snake copies a piece from its predecessor only when the two  *)
(* differ, walking from the tail to the head; the outcome is the plain     *)
(* shift: every piece behind the head ends on the position its predecessor *)
(* held before the call, also when the body ends in duplicated pieces.     *)
(***************************************************************************)
C17_ShiftIsUnconditional ==
    StepReturned =>
        LET moved == move_snake(pre.snake, global_snake_direction)
        IN  /\ Len(moved) = Len(pre.snake)
            /\ \A i \in 2..Len(pre.snake) :
                  /\ moved[i] = pre.snake[i - 1]
                  /\ snake[i] = pre.snake[i - 1]

\* a step taken by a body whose last two pieces lie on one tile
C17_ShiftedDuplicatedTail ==
    /\ StepReturned /\ Len(pre.snake) >= 3
    /\ pre.snake[Len(pre.snake)] = pre.snake[Len(pre.snake) - 1]
    /\ pre.snake[Len(pre.snake) - 1] # pre.snake[Len(pre.snake) - 2]
    /\ snake[Len(pre.snake)] = pre.snake[Len(pre.snake) - 1]
    /\ snake[Len(pre.snake) - 1] = pre.snake[Len(pre.snake) - 2]

Abs(n) == IF n < 0 THEN -n ELSE n

\* two positions one tile apart along a row or a column
Adjacent(p, q) == Abs(p[1] - q[1]) + Abs(p[2] - q[2]) = 1

(***************************************************************************)
(* C18.  In every state reached from reset by valid steps, steps after the *)
(* episode ended included, and whatever the apple respawns, the body has   *)
(* at least two pieces and any two consecutive pieces are equal or one     *)
(* tile apart along a row or a column.                                     *)
(***************************************************************************)
C18_BodyIsConnected ==
    snake # None =>
        /\ Len(snake) >= 2
        /\ \A i \in 1..(Len(snake) - 1) :
              snake[i] = snake[i + 1] \/ Adjacent(snake[i], snake[i + 1])

\* a step after the episode ended, by a body that grew and holds both an
\* equal pair and a pair one tile apart
C18_ConnectedAfterDone ==
    /\ StepReturned /\ WasDone /\ Len(snake) >= 3
    /\ \E i \in 1..(Len(snake) - 1) : snake[i] = snake[i + 1]
    /\ \E i \in 1..(Len(snake) - 1) : Adjacent(snake[i], snake[i + 1])

\* the way the head moves under heading code d: codes 3 and 4 both move left
Movement(d) == IF d >= 3 THEN 3 ELSE d

\* up against down, right against left
Opposite(d, e) == Abs(Movement(d) - Movement(e)) = 2

(***************************************************************************)
(* C19.  No valid action reverses the snake: for every heading 0..4 and    *)
(* action 0..2 the head moves, after the turn, in a way that is not the    *)
(* opposite of the way it moved before, so after a step the head is never  *)
(* on the tile that the piece behind it held before the step; this holds   *)
(* for the first step after reset as for every later step.                 *)
(***************************************************************************)
C19_NoReversal ==
    /\ snake # None =>
         \A act \in 0..2 :
            ~Opposite(relative_to_global_direction(global_snake_direction, act),
                      global_snake_direction)
    /\ StepReturned =>
         /\ ~Opposite(global_snake_direction, pre.dir)
         /\ snake[1] # pre.snake[2]
         /\ pre.snake[1] # pre.snake[2]

\* a turn from heading 3 to heading 4: both move the head left
C19_TurnThreeToFourKeepsLeft ==
    /\ StepReturned /\ action = 0 /\ pre.dir = 3 /\ global_snake_direction = 4
    /\ snake[1] = <<pre.snake[1][1], pre.snake[1][2] - 1>>
    /\ pre.snake[2] = <<pre.snake[1][1], pre.snake[1][2] + 1>>

\* position t lies on ray k of body s, at most 14 tiles from the head
OnRay(s, k, t) == \E n \in 1..14 : RayTile(s, k, n) = t

\* the tiles of ray k of body s, at most 14 tiles from the head, that hold
\* a piece behind the head
PiecesOnRay(s, k) ==
    {RayTile(s, k, n) : n \in 1..14} \cap pieces_after_head(s)

(***************************************************************************)
(* C20.  With the head inside the grid, a raw apple ray reports 14 exactly *)
(* when the apple is not on that ray, and a raw body ray reports 14        *)
(* exactly when no piece behind the head that is inside the grid is on     *)
(* that ray; an apple or a piece that is on the ray and inside the grid is *)
(* reported at a distance of at most 13.                                   *)
(***************************************************************************)
C20_FourteenIffNoTargetInGrid ==
    (snake # None /\ InGrid(snake[1])) =>
        \A a \in {apple_rays(snake, apple)}, b \in {snake_piece_rays(snake)} :
            \A k \in 1..8 :
                /\ a[k] = 14 <=> ~OnRay(snake, k, apple)
                /\ (InGrid(apple) /\ OnRay(snake, k, apple)) => a[k] <= 13
                /\ b[k] = 14 <=> PiecesOnRay(snake, k) \cap Grid = {}
                /\ PiecesOnRay(snake, k) \cap Grid # {} => b[k] <= 13

(***************************************************************************)
(* C20, amended.  With the head inside the grid, a raw apple ray reports   *)
(* 14 exactly when the apple is not on that ray, and a raw body ray        *)
(* reports 14 exactly when no piece behind the head, inside the grid or    *)
(* outside it, is on that ray within 14 tiles of the head; an apple or a   *)
(* piece that is on the ray and inside the grid is reported at a distance  *)
(* of at most 13.                                                          *)
(***************************************************************************)
C20_FourteenIffNoTargetInReach ==
    (snake # None /\ InGrid(snake[1])) =>
        \A a \in {apple_rays(snake, apple)}, b \in {snake_piece_rays(snake)} :
            \A k \in 1..8 :
                /\ a[k] = 14 <=> ~OnRay(snake, k, apple)
                /\ (InGrid(apple) /\ OnRay(snake, k, apple)) => a[k] <= 13
                /\ b[k] = 14 <=> PiecesOnRay(snake, k) = {}
                /\ PiecesOnRay(snake, k) \cap Grid # {} => b[k] <= 13

\* the head is back inside the grid and a body ray stops on a piece that
\* lies outside it
C20_PieceOutsideGridSeen ==
    /\ StepReturned /\ InGrid(snake[1])
    /\ \E k \in 1..8 :
          /\ snake_piece_rays(snake)[k] < 14
          /\ ~InGrid(RayTile(snake, k, snake_piece_rays(snake)[k] + 1))

====
